---- MODULE Spec2Model ----
(***************************************************************************)
(* A model of intake-flow: the NextAuth route matcher, the WorkflowEditor  *)
(* and WorkflowCanvas components, the zustand canvas store, the API        *)
(* middleware with its Redis rate limiter, the BullMQ email queue, the     *)
(* email providers, the document and e-signature services, the client      *)
(* portal's tokens and middleware, the password history, the auto-layout   *)
(* sort and the MFA backup codes.                                          *)
(*                                                                         *)
(* The parts are separate programs.  Each has its own next-state relation  *)
(* and specification over its own variables, from one Init.                *)
(*                                                                         *)
(* Strings the code inspects character by character (request paths) are    *)
(* sequences of one-character strings.                                     *)
(***************************************************************************)
EXTENDS Integers, Sequences, FiniteSets, TLC

VARIABLES
    authLast,       \* src/middleware.ts: the last request the matcher saw and its outcome
    phase,          \* WorkflowEditor: "unmounted" | "mounted"
    mode,           \* WorkflowEditor prop
    workflowId,     \* WorkflowEditor prop
    workflow,       \* WorkflowEditor useState: the workflow being edited
    selectedStep,   \* WorkflowEditor useState
    isLoading,      \* WorkflowEditor useState
    timers,         \* the browser's pending setTimeout callbacks of the editor
    consoleLog,     \* the last console.log of the editor's timer callbacks
    draggedStep,    \* WorkflowCanvas useState
    store,          \* useCanvasStore: workflow, selectedSteps, history, historyIndex
    trace,          \* the last call made on the store, and the workflow around it
    redis,          \* rate limiter: key -> [count, ttl]
    apiLast,        \* API middleware: the last request and its response
    jobs,           \* email queue: job id -> the BullMQ job
    emailSent,      \* prisma.emailSent: job id -> the status of each of its rows
    executionStep,  \* prisma.executionStep: execution id -> the status of its current step
    delivered,      \* job id -> how often EmailService.sendEmail has sent its email
    mailLast,       \* EmailService: the last sendEmail, what it called and how it ended
    documents,      \* prisma.document: the rows, in the order of their creation
    executions,     \* prisma.workflowExecution: id -> status and context.waitingForDocument
    esigLast,       \* the last createDocument or handleWebhook, what it called and how it ended
    now,            \* the clock of the portal's server, in seconds
    portalAccess,   \* prisma.clientPortalAccess: the rows
    everIssued,     \* the tokens generateAccessToken has returned
    revoked,        \* the tokens a completed revokeToken or revokeAllClientTokens has deleted
    portalLast,     \* the last call on PortalAuth or the portal middleware and its result
    passwordHistory, \* prisma.passwordHistory: user -> the hashes of its rows, oldest first
    passwordLast,   \* the last call on PasswordService and its result
    layout,         \* AutoLayoutEngine.topologicalSort: its graph, its locals and where it is
    mfaBackupCode,  \* prisma.mfaBackupCode: user -> the rows, hash of the code and used
    mfaRequest,     \* the useBackupCode calls under way: request -> where it is and what it has read
    mfaAccepted     \* backup code -> the number of useBackupCode calls that returned true for it

vars == << authLast, phase, mode, workflowId, workflow, selectedStep, isLoading,
           timers, consoleLog, draggedStep, store, trace,
           redis, apiLast, jobs, emailSent, executionStep, delivered,
           mailLast,
           documents, executions, esigLast,
           now, portalAccess, everIssued, revoked, portalLast,
           passwordHistory, passwordLast,
           layout,
           mfaBackupCode, mfaRequest, mfaAccepted >>

authVars == << authLast >>
editorVars == << phase, mode, workflowId, workflow, selectedStep, isLoading,
                 timers, consoleLog, draggedStep >>
storeVars == << store, trace >>
apiVars == << redis, apiLast >>
emailVars == << jobs, emailSent, executionStep, delivered >>
mailVars == << mailLast >>
docVars == << documents, executions, esigLast >>
portalVars == << now, portalAccess, everIssued, revoked, portalLast >>
passwordVars == << passwordHistory, passwordLast >>
layoutVars == << layout >>
mfaVars == << mfaBackupCode, mfaRequest, mfaAccepted >>
notAuth == << editorVars, storeVars, apiVars, emailVars, mailVars, docVars,
    portalVars, passwordVars, layoutVars, mfaVars >>
notEditor == << authVars, storeVars, apiVars, emailVars, mailVars, docVars,
    portalVars, passwordVars, layoutVars, mfaVars >>
notStore == << authVars, editorVars, apiVars, emailVars, mailVars, docVars,
    portalVars, passwordVars, layoutVars, mfaVars >>
notApi == << authVars, editorVars, storeVars, emailVars, mailVars, docVars,
    portalVars, passwordVars, layoutVars, mfaVars >>
notEmail == << authVars, editorVars, storeVars, apiVars, mailVars, docVars,
    portalVars, passwordVars, layoutVars, mfaVars >>
notMail == << authVars, editorVars, storeVars, apiVars, emailVars, docVars,
    portalVars, passwordVars, layoutVars, mfaVars >>
notDoc == << authVars, editorVars, storeVars, apiVars, emailVars, mailVars,
    portalVars, passwordVars, layoutVars, mfaVars >>
notPortal == << authVars, editorVars, storeVars, apiVars, emailVars,
    mailVars, docVars, passwordVars, layoutVars, mfaVars >>
notPassword == << authVars, editorVars, storeVars, apiVars, emailVars,
    mailVars, docVars, portalVars, layoutVars, mfaVars >>
notLayout == << authVars, editorVars, storeVars, apiVars, emailVars,
    mailVars, docVars, portalVars, passwordVars, mfaVars >>
notMfa == << authVars, editorVars, storeVars, apiVars, emailVars, mailVars,
    docVars, portalVars, passwordVars, layoutVars >>

\* JavaScript's null / undefined.
Null == "<null>"

(***************************************************************************)
(* Character-level string helpers.                                         *)
(***************************************************************************)

\* String.prototype.startsWith
StartsWith(s, prefix) ==
    /\ Len(s) >= Len(prefix)
    /\ \A i \in 1..Len(prefix) : s[i] = prefix[i]

\* String.prototype.endsWith
EndsWith(s, suffix) ==
    /\ Len(s) >= Len(suffix)
    /\ \A i \in 1..Len(suffix) : s[Len(s) - Len(suffix) + i] = suffix[i]

\* The regular-expression wildcard `.` inside a pattern.
AnyChar == "<.>"

\* A regular-expression literal (with `.` wildcards) matches at the start of s.
RegexPrefix(s, pat) ==
    /\ Len(s) >= Len(pat)
    /\ \A i \in 1..Len(pat) : pat[i] = AnyChar \/ s[i] = pat[i]

(***************************************************************************)
(* src/middleware.ts: the matcher of the authentication middleware.        *)
(***************************************************************************)

S_api == << "a", "p", "i" >>
S_nextStatic == << "_", "n", "e", "x", "t", "/", "s", "t", "a", "t", "i", "c" >>
S_nextImage == << "_", "n", "e", "x", "t", "/", "i", "m", "a", "g", "e" >>
S_faviconIco == << "f", "a", "v", "i", "c", "o", "n", ".", "i", "c", "o" >>
\* favicon.ico as written in the regular expression: its dot is unescaped.
R_faviconIco == << "f", "a", "v", "i", "c", "o", "n", AnyChar, "i", "c", "o" >>

\* The alternatives of the negative lookahead (?!api|_next/static|_next/image|favicon.ico|$).
LookaheadAlternatives == { S_api, S_nextStatic, S_nextImage, R_faviconIco }

\* "/((?!api|_next/static|_next/image|favicon.ico|$).*)", anchored to the whole path.
MatcherMatches(path) ==
    /\ Len(path) >= 1
    /\ path[1] = "/"
    /\ LET rest == Tail(path)
       IN  /\ \A alt \in LookaheadAlternatives : ~RegexPrefix(rest, alt)
           /\ rest # << >>                       \* the `$` alternative

\* callbacks.authorized: !!auth
Authorized(session) == session # Null

\* The middleware on one request: outside the matcher it does not run; inside it
\* lets the request through when authorized and redirects to pages.signIn otherwise.
AuthOutcome(path, session) ==
    IF ~MatcherMatches(path) THEN "not-applied"
    ELSE IF Authorized(session) THEN "next"
    ELSE "redirect:/signin"

\* Pieces request paths are put together from.
AuthPieces ==
    { << >>, S_api, S_nextStatic, S_nextImage, S_faviconIco,
      << "f", "a", "v", "i", "c", "o", "n" >>, << "x", "i", "c", "o" >>,
      << "d", "a", "s", "h" >>, << "/", "x" >>, << "x" >>,
      << "_", "n", "e", "x", "t" >>, << "/" >> }

AuthPaths == { << "/" >> \o a \o b : a \in AuthPieces, b \in AuthPieces }

Sessions == { Null, "u1" }

AuthRequest(path, session) ==
    /\ authLast' = [ path |-> path, session |-> session,
                     applied |-> MatcherMatches(path),
                     outcome |-> AuthOutcome(path, session) ]
    /\ UNCHANGED notAuth

AuthNext == \E path \in AuthPaths, session \in Sessions : AuthRequest(path, session)

NoRequest == [ path |-> << >>, session |-> Null, applied |-> FALSE, outcome |-> "none" ]

(***************************************************************************)
(* src/app/dashboard/workflows/_components/WorkflowEditor.tsx and          *)
(* WorkflowCanvas.tsx.  A step keeps its id, type, name and position; the  *)
(* description and config of a step and the name and description of the    *)
(* workflow are left out (no handler reads them).                          *)
(***************************************************************************)

Pos(x, y) == [ x |-> x, y |-> y ]

Step(id, type, name, position) ==
    [ id |-> id, type |-> type, name |-> name, position |-> position ]

Conn(from, to) == [ from |-> from, to |-> to ]

mockWorkflowData ==
    [ id |-> "1",
      status |-> "active",
      steps |-> << Step("step-1", "form", "Project Intake Form", Pos(100, 100)),
                   Step("step-2", "email", "Welcome Email", Pos(300, 100)),
                   Step("step-3", "document", "Send Contract", Pos(500, 100)) >>,
      connections |-> << Conn("step-1", "step-2"), Conn("step-2", "step-3") >> ]

\* useState's initial workflow: no id, status draft, no steps, no connections.
EmptyDraft ==
    [ id |-> Null, status |-> "draft", steps |-> << >>, connections |-> << >> ]

\* Array.prototype.filter is SelectSeq; Array.prototype.map builds the
\* sequence of the images.

StepIdsOf(w) == { w.steps[i].id : i \in 1..Len(w.steps) }

\* The props the component is mounted with.
Modes == { "create", "edit" }
WorkflowIds == { Null, "", "1", "42" }

\* JavaScript truthiness of the optional string prop workflowId.
Truthy(id) == id # Null /\ id # ""

\* The condition of the mount effect that loads the mock workflow, as a bug
\* that looks the workflow up by its id would have it.
LoadsMockById(m, id) == m = "edit" /\ id = mockWorkflowData.id

\* useEffect: if (mode === "edit" && workflowId)
LoadsMock(m, id) == m = "edit" /\ Truthy(id)

\* The first render: useState installs the initial values.
EditorRender(m, id) ==
    /\ phase = "unmounted"
    /\ phase' = "rendered"
    /\ mode' = m
    /\ workflowId' = id
    /\ workflow' = EmptyDraft
    /\ selectedStep' = Null
    /\ isLoading' = FALSE
    /\ draggedStep' = Null
    /\ UNCHANGED << timers, consoleLog, notEditor >>

\* useEffect(() => { ... }, [mode, workflowId]) after the first render.
EditorEffect ==
    /\ phase = "rendered"
    /\ phase' = "mounted"
    /\ workflow' = IF LoadsMock(mode, workflowId) THEN mockWorkflowData ELSE workflow
    /\ UNCHANGED << mode, workflowId, selectedStep, isLoading, timers, consoleLog,
                    draggedStep, notEditor >>

\* The timer callback of handleSave / handlePublish as a bug that forgets to
\* clear the loading flag would have it.
TimeoutKeepsLoading ==
    /\ timers # << >>
    /\ consoleLog' = Head(timers)
    /\ timers' = Tail(timers)
    /\ UNCHANGED << isLoading, phase, mode, workflowId, workflow, selectedStep,
                    draggedStep, notEditor >>

\* The setTimeout callback: console.log(...); setIsLoading(false).  Callbacks of
\* equal delay run in the order they were set.
Timeout ==
    /\ timers # << >>
    /\ consoleLog' = Head(timers)
    /\ timers' = Tail(timers)
    /\ isLoading' = FALSE
    /\ UNCHANGED << phase, mode, workflowId, workflow, selectedStep, draggedStep,
                    notEditor >>

\* Save Draft: the button is disabled while isLoading.
handleSave ==
    /\ phase = "mounted"
    /\ ~isLoading
    /\ isLoading' = TRUE
    /\ timers' = Append(timers, "Saving workflow:")
    /\ UNCHANGED << phase, mode, workflowId, workflow, selectedStep, consoleLog,
                    draggedStep, notEditor >>

\* Publish / Update: the button is disabled while isLoading.
handlePublish ==
    /\ phase = "mounted"
    /\ ~isLoading
    /\ isLoading' = TRUE
    /\ workflow' = [ workflow EXCEPT !.status = "active" ]
    /\ timers' = Append(timers, "Publishing workflow:")
    /\ UNCHANGED << phase, mode, workflowId, selectedStep, consoleLog, draggedStep,
                    notEditor >>

\* The Switch's onCheckedChange.
setStatus(checked) ==
    /\ phase = "mounted"
    /\ workflow' = [ workflow EXCEPT !.status = IF checked THEN "active" ELSE "draft" ]
    /\ UNCHANGED << phase, mode, workflowId, selectedStep, isLoading, timers,
                    consoleLog, draggedStep, notEditor >>

\* addStep(stepType); id is `step-${Date.now()}`.
addStep(stepType, id) ==
    /\ phase = "mounted"
    /\ LET n == Len(workflow.steps)
           newStep == Step(id, stepType, "New step", Pos(200 + n * 50, 200 + n * 50))
       IN  workflow' = [ workflow EXCEPT !.steps = Append(@, newStep) ]
    /\ selectedStep' = id
    /\ UNCHANGED << phase, mode, workflowId, isLoading, timers, consoleLog,
                    draggedStep, notEditor >>

\* updateStep(stepId, { name })
updateStep(stepId, name) ==
    /\ phase = "mounted"
    /\ LET Upd(s) == IF s.id = stepId THEN [ s EXCEPT !.name = name ] ELSE s
       IN  workflow' = [ workflow EXCEPT !.steps = [ i \in 1..Len(@) |-> Upd(@[i]) ] ]
    /\ UNCHANGED << phase, mode, workflowId, selectedStep, isLoading, timers,
                    consoleLog, draggedStep, notEditor >>

deleteStep(stepId) ==
    /\ phase = "mounted"
    /\ LET KeepStep(s) == s.id # stepId
           KeepConn(c) == c.from # stepId /\ c.to # stepId
       IN  workflow' = [ workflow EXCEPT !.steps = SelectSeq(@, KeepStep),
                                         !.connections = SelectSeq(@, KeepConn) ]
    /\ selectedStep' = IF selectedStep = stepId THEN Null ELSE selectedStep
    /\ UNCHANGED << phase, mode, workflowId, isLoading, timers, consoleLog,
                    draggedStep, notEditor >>

\* WorkflowCanvas: onSelectStep(selectedStep === stepId ? null : stepId)
handleStepClick(stepId) ==
    /\ phase = "mounted"
    /\ selectedStep' = IF selectedStep = stepId THEN Null ELSE stepId
    /\ UNCHANGED << phase, mode, workflowId, workflow, isLoading, timers,
                    consoleLog, draggedStep, notEditor >>

\* handleDragEnd as a bug that writes the dragged card's position back through
\* onUpdateStep would have it.
DragEndMovesStep ==
    /\ phase = "mounted"
    /\ draggedStep # Null
    /\ draggedStep' = Null
    /\ LET Upd(s) == IF s.id = draggedStep
                     THEN [ s EXCEPT !.position = Pos(s.position.x + 20, s.position.y) ]
                     ELSE s
       IN  workflow' = [ workflow EXCEPT !.steps = [ i \in 1..Len(@) |-> Upd(@[i]) ] ]
    /\ UNCHANGED << phase, mode, workflowId, selectedStep, isLoading, timers,
                    consoleLog, notEditor >>

\* WorkflowCanvas: setDraggedStep(stepId), on the card of a rendered step.
handleDragStart(stepId) ==
    /\ phase = "mounted"
    /\ draggedStep' = stepId
    /\ UNCHANGED << phase, mode, workflowId, workflow, selectedStep, isLoading,
                    timers, consoleLog, notEditor >>

\* WorkflowCanvas: setDraggedStep(null); dragend follows a dragstart.
handleDragEnd ==
    /\ phase = "mounted"
    /\ draggedStep # Null
    /\ draggedStep' = Null
    /\ UNCHANGED << phase, mode, workflowId, workflow, selectedStep, isLoading,
                    timers, consoleLog, notEditor >>

\* What a user can do in the editor: step types offered by the library, ids
\* Date.now() yields (a later click gets a later id), names typed into the
\* configuration panel of the selected step.
EditorStepTypes == { "email" }
EditorNewIds == { "step-1700000000000" }
EditorNames == { "Renamed" }

EditorNext ==
    \/ \E m \in Modes, id \in WorkflowIds : EditorRender(m, id)
    \/ EditorEffect
    \/ Timeout
    \/ handleSave
    \/ handlePublish
    \/ \E checked \in BOOLEAN : setStatus(checked)
    \/ \E t \in EditorStepTypes, id \in EditorNewIds \ StepIdsOf(workflow) : addStep(t, id)
    \/ \E n \in EditorNames : selectedStep \in StepIdsOf(workflow) /\ updateStep(selectedStep, n)
    \/ \E id \in StepIdsOf(workflow) : deleteStep(id)
    \/ \E id \in StepIdsOf(workflow) : handleStepClick(id)
    \/ \E id \in StepIdsOf(workflow) : handleDragStart(id)
    \/ handleDragEnd

(***************************************************************************)
(* src/unnamed/part_001 (lib/stores/canvas-store.ts): useCanvasStore.      *)
(* store is the state object get() returns; every action below is the      *)
(* state set() leaves after the call.  A step keeps its id and name, a     *)
(* connection its id, from and to.                                         *)
(***************************************************************************)

\* history.slice(-50): the number of snapshots kept.
HistoryLimit == 50
\* Math.min(newHistory.length - 1, 49)
MaxHistoryIndex == 49

Min(a, b) == IF a <= b THEN a ELSE b

InitialStore ==
    [ workflow |-> [ id |-> "", status |-> "draft", steps |-> << >>, connections |-> << >> ],
      selectedSteps |-> << >>,
      history |-> << >>,
      historyIndex |-> -1 ]

\* JSON.parse(JSON.stringify(workflow)): a fresh value built field by field.
JsonCopy(w) ==
    [ id |-> w.id,
      status |-> w.status,
      steps |-> [ i \in 1..Len(w.steps) |->
                    [ id |-> w.steps[i].id, name |-> w.steps[i].name ] ],
      connections |-> [ i \in 1..Len(w.connections) |->
                    [ id |-> w.connections[i].id,
                      from |-> w.connections[i].from,
                      to |-> w.connections[i].to ] ] ]

\* Array.prototype.slice(0, end)
SliceTo(seq, end) == SubSeq(seq, 1, Min(end, Len(seq)))

\* Array.prototype.slice(-n)
SliceLast(seq, n) == IF Len(seq) <= n THEN seq ELSE SubSeq(seq, Len(seq) - n + 1, Len(seq))

\* saveToHistory as a bug that keeps every snapshot would have it.
SaveToHistoryUntrimmed(st) ==
    LET newHistory == Append(SliceTo(st.history, st.historyIndex + 1), JsonCopy(st.workflow))
    IN  [ st EXCEPT !.history = newHistory,
                    !.historyIndex = Len(newHistory) - 1 ]

\* saveToHistory
SaveToHistory(st) ==
    LET newHistory == Append(SliceTo(st.history, st.historyIndex + 1), JsonCopy(st.workflow))
    IN  [ st EXCEPT !.history = SliceLast(newHistory, HistoryLimit),
                    !.historyIndex = Min(Len(newHistory) - 1, MaxHistoryIndex) ]

\* addStep: workflow is read before saveToHistory() and written after it.
CanvasAddStep(st, step) ==
    [ SaveToHistory(st) EXCEPT !.workflow = [ st.workflow EXCEPT !.steps = Append(@, step) ] ]

\* updateStep(stepId, { name })
CanvasUpdateStep(st, stepId, name) ==
    LET Upd(x) == IF x.id = stepId THEN [ x EXCEPT !.name = name ] ELSE x
    IN  [ SaveToHistory(st) EXCEPT
            !.workflow = [ st.workflow EXCEPT !.steps = [ i \in 1..Len(@) |-> Upd(@[i]) ] ] ]

\* deleteStep
CanvasDeleteStep(st, stepId) ==
    LET KeepStep(x) == x.id # stepId
        KeepConn(c) == c.from # stepId /\ c.to # stepId
        KeepSel(id) == id # stepId
    IN  [ SaveToHistory(st) EXCEPT
            !.workflow = [ st.workflow EXCEPT !.steps = SelectSeq(@, KeepStep),
                                              !.connections = SelectSeq(@, KeepConn) ],
            !.selectedSteps = SelectSeq(@, KeepSel) ]

\* workflow.connections.some((conn) => conn.from === from && conn.to === to)
HasConnection(w, from, to) ==
    \E i \in 1..Len(w.connections) :
        w.connections[i].from = from /\ w.connections[i].to = to

\* `${from}-${to}`
ConnectionId(from, to) == << from, "-", to >>

\* addConnection as a bug that drops the duplicate check would have it.
AddConnectionUnchecked(st, from, to) ==
    [ SaveToHistory(st) EXCEPT
        !.workflow = [ st.workflow EXCEPT !.connections =
            Append(@, [ id |-> ConnectionId(from, to), from |-> from, to |-> to ]) ] ]

\* addConnection
CanvasAddConnection(st, from, to) ==
    IF HasConnection(st.workflow, from, to) THEN st
    ELSE [ SaveToHistory(st) EXCEPT
             !.workflow = [ st.workflow EXCEPT !.connections =
                 Append(@, [ id |-> ConnectionId(from, to), from |-> from, to |-> to ]) ] ]

\* undo
CanvasUndo(st) ==
    IF st.historyIndex > 0
    THEN [ st EXCEPT !.workflow = JsonCopy(st.history[st.historyIndex]),
                     !.historyIndex = st.historyIndex - 1 ]
    ELSE st

\* redo
CanvasRedo(st) ==
    IF st.historyIndex < Len(st.history) - 1
    THEN [ st EXCEPT !.workflow = JsonCopy(st.history[st.historyIndex + 2]),
                     !.historyIndex = st.historyIndex + 1 ]
    ELSE st

\* The record of a call: which action, with which arguments, and for an action
\* that saved a snapshot the workflow before and after it, kept while the calls
\* that follow are its undo and then its redo.
NoTrace == [ op |-> "none", args |-> << >>, stage |-> "none", before |-> Null, after |-> Null ]

Saving == { "addStep", "updateStep", "deleteStep", "addConnection" }

NextTrace(op, args, st, st2) ==
    IF op \in Saving /\ st2 # st
    THEN [ op |-> op, args |-> args, stage |-> "changed",
           before |-> st.workflow, after |-> st2.workflow ]
    ELSE IF op = "undo" /\ trace.stage = "changed"
    THEN [ trace EXCEPT !.op = op, !.args = args, !.stage = "undone" ]
    ELSE IF op = "redo" /\ trace.stage = "undone"
    THEN [ trace EXCEPT !.op = op, !.args = args, !.stage = "redone" ]
    ELSE [ NoTrace EXCEPT !.op = op, !.args = args ]

\* One call on the store, recorded.
StoreCall(op, args, st2) ==
    /\ store' = st2
    /\ trace' = NextTrace(op, args, store, st2)
    /\ UNCHANGED notStore

\* One call on the store.
StoreStep(st2) ==
    /\ store' = st2
    /\ UNCHANGED << trace, notStore >>

\* The calls a canvas makes: steps of two ids, one new name, connections
\* between the two ids.  MaxSteps caps the step list, MaxSnapshots the
\* snapshots below the index.
StoreStepIds == { "a", "b" }
StoreNames == { "renamed" }
MaxSteps == 2
MaxSnapshots == 3

NewStep(id) == [ id |-> id, name |-> "new" ]

Room == store.historyIndex + 1 < MaxSnapshots

StoreNext ==
    \/ \E id \in StoreStepIds :
          /\ Room /\ Len(store.workflow.steps) < MaxSteps
          /\ StoreCall("addStep", << id >>, CanvasAddStep(store, NewStep(id)))
    \/ \E id \in StoreStepIds, n \in StoreNames :
          Room /\ StoreCall("updateStep", << id, n >>, CanvasUpdateStep(store, id, n))
    \/ \E id \in StoreStepIds :
          Room /\ StoreCall("deleteStep", << id >>, CanvasDeleteStep(store, id))
    \/ \E f \in StoreStepIds, t \in StoreStepIds :
          Room /\ StoreCall("addConnection", << f, t >>, CanvasAddConnection(store, f, t))
    \/ StoreCall("undo", << >>, CanvasUndo(store))
    \/ StoreCall("redo", << >>, CanvasRedo(store))

\* The same calls with nothing capping the history: one connection, and updates
\* and deletions of a step the workflow does not hold.
HistoryNext ==
    \/ StoreStep(CanvasAddConnection(store, "a", "b"))
    \/ StoreStep(CanvasUpdateStep(store, "a", "renamed"))
    \/ StoreStep(CanvasDeleteStep(store, "c"))
    \/ StoreStep(CanvasUndo(store))
    \/ StoreStep(CanvasRedo(store))

(***************************************************************************)
(* src/unnamed/part_000: the API middleware (middleware.ts) and the rate   *)
(* limiter (lib/rate-limit.ts).  Time is in seconds.                       *)
(***************************************************************************)

P_api == << "/", "a", "p", "i", "/" >>
P_apiAuth == P_api \o << "a", "u", "t", "h", "/" >>
P_apiForms == P_api \o << "f", "o", "r", "m", "s", "/" >>
P_submit == << "/", "s", "u", "b", "m", "i", "t" >>

\* rateLimitConfigs, in the order Object.entries yields them.
WindowMs == 60000
AuthMaxRequests == 5
FormsMaxRequests == 10
DefaultMaxRequests == 100

rateLimitConfigs ==
    << [ path |-> P_apiAuth, windowMs |-> WindowMs, maxRequests |-> AuthMaxRequests ],
       [ path |-> P_apiForms, windowMs |-> WindowMs, maxRequests |-> FormsMaxRequests ],
       [ path |-> P_api, windowMs |-> WindowMs, maxRequests |-> DefaultMaxRequests ] >>

\* Object.entries(...).find(([path]) => pathname.startsWith(path))?.[1] || rateLimitConfigs["/api/"]
RateConfig(pathname) ==
    LET hits == { i \in 1..Len(rateLimitConfigs) : StartsWith(pathname, rateLimitConfigs[i].path) }
    IN  IF hits = { } THEN rateLimitConfigs[3]
        ELSE rateLimitConfigs[CHOOSE i \in hits : \A j \in hits : i <= j]

\* Math.ceil(config.windowMs / 1000)
CeilDiv(a, b) == (a + b - 1) \div b

\* `rate_limit:${ip}:${pathname}`
RateKey(ip, pathname) == << "rate_limit", ip, pathname >>

\* A key Redis does not hold.
NoKey == [ count |-> 0, ttl |-> 0 ]

\* The request paths and client addresses of the model.
ApiPaths ==
    { P_apiAuth \o << "s", "i", "g", "n", "i", "n" >>,
      P_apiAuth \o << "s", "e", "s", "s", "i", "o", "n" >>,
      P_apiForms \o << "f", "1" >>,
      P_apiForms \o << "f", "1" >> \o P_submit,
      P_api \o << "w", "o", "r", "k", "f", "l", "o", "w", "s" >> }
ApiIps == { "10.0.0.1" }
RateKeys == { RateKey(ip, p) : ip \in ApiIps, p \in ApiPaths }

\* The session auth() returns: null (the empty sequence here), or the
\* signed-in user.
NoSession == << >>
ApiSessions == { NoSession, << [ user |-> [ id |-> "u1", email |-> "u1@example.com" ] ] >> }
\* The x-user-id / x-user-email headers a client may send on its own.
NoHeaders == [ xUserId |-> Null, xUserEmail |-> Null ]
ClientHeaders == { NoHeaders,
                   [ xUserId |-> "u2", xUserEmail |-> "u2@example.com" ] }

\* The public-route test as a bug that forgets the /submit suffix would have it.
IsPublicRouteAnyForm(pathname) == StartsWith(pathname, P_apiForms)

\* pathname.startsWith("/api/forms/") && pathname.endsWith("/submit")
IsPublicRoute(pathname) == StartsWith(pathname, P_apiForms) /\ EndsWith(pathname, P_submit)

\* pathname.startsWith("/api/") && !pathname.startsWith("/api/auth/")
NeedsSession(pathname) == StartsWith(pathname, P_api) /\ ~StartsWith(pathname, P_apiAuth)

\* redis.incr(key), then redis.expire(key, ...) when the key is new.
RedisAfterIncr(r, key, config) ==
    LET current == r[key].count + 1
    IN  [ r EXCEPT ![key] = [ count |-> current,
                              ttl |-> IF current = 1 THEN CeilDiv(config.windowMs, 1000)
                                      ELSE r[key].ttl ] ]

\* rateLimit(request): what it returns, given the count INCR returned.
RateLimitResult(current, config) ==
    [ success |-> current <= config.maxRequests,
      remaining |-> IF config.maxRequests - current > 0 THEN config.maxRequests - current ELSE 0 ]

\* The response of middleware(request): the status, and for a request that is
\* passed on the x-user-id / x-user-email headers it is passed on with.
MiddlewareResponse(req, rate) ==
    IF IsPublicRoute(req.pathname)
    THEN [ status |-> "next", headers |-> req.headers ]
    ELSE IF ~rate.success
    THEN [ status |-> "429", headers |-> NoHeaders ]
    ELSE IF NeedsSession(req.pathname)
    THEN IF req.session = NoSession
         THEN [ status |-> "401", headers |-> NoHeaders ]
         ELSE [ status |-> "next",
                headers |-> [ xUserId |-> req.session[1].user.id,
                              xUserEmail |-> req.session[1].user.email ] ]
    ELSE [ status |-> "next", headers |-> req.headers ]

\* The class of a path in the words of rateLimitConfigs' comments.
RateClasses == { "auth", "forms", "other" }
RateClass(pathname) ==
    IF StartsWith(pathname, P_apiAuth) THEN "auth"
    ELSE IF StartsWith(pathname, P_apiForms) THEN "forms"
    ELSE "other"

NoApiRequest ==
    [ req |-> [ ip |-> Null, pathname |-> << >>, session |-> NoSession, headers |-> NoHeaders ],
      current |-> 0, remaining |-> 0, status |-> "none", headers |-> NoHeaders ]

\* middleware(request)
Middleware(req) ==
    LET config == RateConfig(req.pathname)
        key == RateKey(req.ip, req.pathname)
        limited == ~IsPublicRoute(req.pathname)
        redis2 == IF limited THEN RedisAfterIncr(redis, key, config) ELSE redis
        rate == RateLimitResult(redis2[key].count, config)
        resp == MiddlewareResponse(req, rate)
    IN  /\ redis' = redis2
        /\ apiLast' = [ req |-> req,
                        current |-> IF limited THEN redis2[key].count ELSE 0,
                        remaining |-> IF limited THEN rate.remaining ELSE 0,
                        status |-> resp.status,
                        headers |-> resp.headers ]
        /\ UNCHANGED notApi

\* Time passes: Redis drops the keys whose time to live has run out.
Advance(seconds) ==
    /\ \E k \in RateKeys : redis[k].count > 0
    /\ redis' = [ k \in RateKeys |->
                    IF redis[k].count > 0 /\ redis[k].ttl > seconds
                    THEN [ redis[k] EXCEPT !.ttl = @ - seconds ]
                    ELSE NoKey ]
    /\ UNCHANGED << apiLast, notApi >>

\* The sum of f[k] over the keys k in S.
RECURSIVE SumOver(_, _)
SumOver(f, S) ==
    IF S = { } THEN 0
    ELSE LET k == CHOOSE x \in S : TRUE IN f[k] + SumOver(f, S \ { k })

\* MaxRequests caps the requests Redis counts at one time.
MaxRequests == 11
AdvanceSteps == { 60 }

RequestsAtOnce == SumOver([ k \in RateKeys |-> redis[k].count ], RateKeys)

ApiNext ==
    \/ \E ip \in ApiIps, p \in ApiPaths, session \in ApiSessions, h \in ClientHeaders :
          /\ RequestsAtOnce < MaxRequests
          /\ Middleware([ ip |-> ip, pathname |-> p, session |-> session, headers |-> h ])
    \/ \E d \in AdvanceSteps : Advance(d)

(***************************************************************************)
(* src/docs/database-schema.md (lib/email/email-queue.ts): EmailQueue.     *)
(* The queue itself is BullMQ's: a job is waiting, active in a worker,     *)
(* delayed for a retry, completed or failed, under the defaultJobOptions   *)
(* the constructor sets.  One run of processEmailJob is one step; the      *)
(* prisma calls are taken to succeed.                                      *)
(***************************************************************************)

\* defaultJobOptions: attempts: 3, backoff: { type: "exponential", delay: 2000 }
Attempts == 3
BackoffDelay == 2000

\* BullMQ's exponential backoff: delay * 2 ^ (attemptsMade - 1)
Backoff(attemptsMade) == BackoffDelay * 2 ^ (attemptsMade - 1)

EmailJobIds == { "job1", "job2" }
ExecutionIds == { "exec1" }

\* A job the queue does not hold.
NoJob == [ state |-> "none", attemptsMade |-> 0, delay |-> 0, workflowExecutionId |-> Null ]

\* How one run of processEmailJob ends when it catches an error, as a bug that
\* leaves out the re-throw would have it.
CaughtErrorSwallowed(sendOk) == "resolved"

\* How one run of processEmailJob ends: it resolves, or re-throws the error it
\* caught.
ProcessOutcome(sendOk) == IF sendOk THEN "resolved" ELSE "rejected"

\* BullMQ, once the processor has rejected: retry while attempts are left.
RetriesLeft(attemptsMade) == attemptsMade < Attempts

\* The job after the processor's run.
JobAfterRun(job, outcome) ==
    LET made == job.attemptsMade + 1
    IN  IF outcome = "resolved"
        THEN [ job EXCEPT !.state = "completed", !.attemptsMade = made, !.delay = 0 ]
        ELSE IF RetriesLeft(made)
        THEN [ job EXCEPT !.state = "delayed", !.attemptsMade = made, !.delay = Backoff(made) ]
        ELSE [ job EXCEPT !.state = "failed", !.attemptsMade = made, !.delay = 0 ]

\* prisma.emailSent.updateMany({ where: { jobId }, data: { status } })
SetRows(rows, status) == [ i \in 1..Len(rows) |-> status ]

\* prisma.executionStep.updateMany({ where: { executionId, status: "running" }, data: { status } })
StepsAfterUpdate(steps, executionId, status) ==
    IF executionId \in DOMAIN steps /\ steps[executionId] = "running"
    THEN [ steps EXCEPT ![executionId] = status ]
    ELSE steps

\* emailData.sendAt.getTime() - Date.now() for the sendAt values of the model;
\* 0 stands for an email without sendAt.
SendAtDelays == { 0, 5000 }

\* addEmail(emailData): queue.add("send-email", emailData, jobOptions), with
\* jobOptions.delay = sendAt - now, or 0 without sendAt.
addEmail(j, executionId, sendAtDelay) ==
    /\ jobs[j].state = "none"
    /\ jobs' = [ jobs EXCEPT ![j] =
                  [ NoJob EXCEPT !.state = IF sendAtDelay > 0 THEN "delayed" ELSE "waiting",
                                 !.delay = sendAtDelay,
                                 !.workflowExecutionId = executionId ] ]
    /\ UNCHANGED << emailSent, executionStep, delivered, notEmail >>

\* A worker takes a waiting job and runs processEmailJob(job); sendOk is
\* whether EmailService.sendEmail returns or throws.
processEmailJob(j, sendOk) ==
    /\ jobs[j].state = "waiting"
    /\ LET status == IF sendOk THEN "sent" ELSE "failed"
           stepStatus == IF sendOk THEN "completed" ELSE "failed"
       IN  /\ emailSent' = [ emailSent EXCEPT ![j] = SetRows(Append(@, "pending"), status) ]
           /\ executionStep' =
                 IF jobs[j].workflowExecutionId # Null
                 THEN StepsAfterUpdate(executionStep, jobs[j].workflowExecutionId, stepStatus)
                 ELSE executionStep
    /\ delivered' = [ delivered EXCEPT ![j] = IF sendOk THEN @ + 1 ELSE @ ]
    /\ jobs' = [ jobs EXCEPT ![j] = JobAfterRun(@, ProcessOutcome(sendOk)) ]
    /\ UNCHANGED notEmail

\* BullMQ: the delay of a delayed job is over.
DelayOver(j) ==
    /\ jobs[j].state = "delayed"
    /\ jobs' = [ jobs EXCEPT ![j] = [ @ EXCEPT !.state = "waiting", !.delay = 0 ] ]
    /\ UNCHANGED << emailSent, executionStep, delivered, notEmail >>

EmailNext ==
    \/ \E j \in EmailJobIds, x \in ExecutionIds \cup { Null }, d \in SendAtDelays :
          addEmail(j, x, d)
    \/ \E j \in EmailJobIds, sendOk \in BOOLEAN : processEmailJob(j, sendOk)
    \/ \E j \in EmailJobIds : DelayOver(j)

(***************************************************************************)
(* src/docs/database-schema.md (lib/email/email-service.ts): EmailService. *)
(* A provider's isHealthy and send catch their own errors: isHealthy       *)
(* returns a boolean, send returns an EmailResult with success set or not. *)
(***************************************************************************)

\* The array with SES moved to the front.
ProvidersSesFirst == << "ses", "resend", "sendgrid" >>

\* EmailService.providers, in the order of the array.
Providers == << "resend", "sendgrid", "ses" >>

ProviderNames == { "resend", "sendgrid", "ses" }

\* What the outside world answers during one sendEmail: whether each provider
\* reports healthy, whether its send succeeds, and what the template lookup
\* finds ("none": the email has no templateId).
MailEnvs ==
    [ healthy : [ ProviderNames -> BOOLEAN ],
      sendOk : [ ProviderNames -> BOOLEAN ],
      template : { "none", "found", "missing" } ]

NoProvider == "<none>"

\* The for loop of sendEmail from the provider at index i on; calls are the
\* provider methods called so far.
RECURSIVE TryProviders(_, _, _, _)
TryProviders(i, env, calls, lastError) ==
    IF i > Len(Providers)
    THEN [ calls |-> calls, kind |-> "throw", provider |-> NoProvider,
           message |-> "All email providers failed", lastError |-> lastError ]
    ELSE LET provider == Providers[i]
             asked == Append(calls, [ provider |-> provider, method |-> "isHealthy" ])
             sent == Append(asked, [ provider |-> provider, method |-> "send" ])
         IN  IF ~env.healthy[provider]
             THEN TryProviders(i + 1, env, asked, lastError)
             ELSE IF env.sendOk[provider]
             THEN [ calls |-> sent, kind |-> "return", provider |-> provider,
                    message |-> "", lastError |-> lastError ]
             ELSE TryProviders(i + 1, env, sent, provider)

\* EmailService.sendEmail(emailData) as a whole.
SendEmailResult(env) ==
    IF env.template = "missing"
    THEN [ calls |-> << >>, kind |-> "throw", provider |-> NoProvider,
           message |-> "Email template not found", lastError |-> "" ]
    ELSE TryProviders(1, env, << >>, "")

NoMail ==
    [ called |-> FALSE,
      env |-> [ healthy |-> [ p \in ProviderNames |-> FALSE ],
                sendOk |-> [ p \in ProviderNames |-> FALSE ],
                template |-> "none" ],
      calls |-> << >>, kind |-> "none", provider |-> NoProvider,
      message |-> "", lastError |-> "" ]

sendEmail(env) ==
    /\ mailLast' = [ called |-> TRUE, env |-> env ] @@ SendEmailResult(env)
    /\ UNCHANGED notMail

MailNext == \E env \in MailEnvs : sendEmail(env)

(***************************************************************************)
(* src/unnamed/part_002: DocumentService and ESignatureService.            *)
(* prisma.document is a sequence of rows in the order of their creation, a *)
(* row's id its index.  A signature request id is a positive number, 0 a   *)
(* null column.  The workflow engine that makes executions wait and        *)
(* resumes them is outside these services: it changes executions on its    *)
(* own, and of WorkflowEngine.resumeExecution only the call is recorded.    *)
(***************************************************************************)

MaxDocuments == 2

ExecutionsOfModel == { "x1", "x2" }

\* status of a WorkflowExecution: running, completed, failed, paused; paused
\* stands for the three that are not running, which no code here tells apart.
ExecutionStatuses == { "running", "paused" }

\* prisma.documentTemplate: id -> workspaceId
DocumentTemplates == [ tpl1 |-> "w1" ]

TemplateIds == { "tpl1", "tpl9" }
WorkspaceIds == { "w1", "w2" }

\* request.signers: undefined, an empty array, one signer
SignersOfModel == { Null, "[]", "[signer]" }

\* request.sendForSignature: undefined, false, true
SendForSignatureValues == { Null, "false", "true" }

\* JavaScript truthiness of the two request fields; an empty array is truthy.
TruthyFlag(v) == v = "true"
TruthySigners(v) == v # Null

\* The id the e-signature provider gives its next signature request.
NextSignatureRequestId(docs) ==
    Cardinality({ i \in 1..Len(docs) : docs[i].signatureRequestId # 0 }) + 1

\* createDocument sending whenever sendForSignature is set, signers or not.
ShouldSendIgnoringSigners(request) == TruthyFlag(request.sendForSignature)

\* if (request.sendForSignature && request.signers)
ShouldSend(request) ==
    TruthyFlag(request.sendForSignature) /\ TruthySigners(request.signers)

NoEsigCall ==
    [ op |-> "none", document |-> 0, sends |-> 0, resumed |-> {}, notified |-> FALSE,
      outcome |-> "none", sendForSignature |-> Null, signers |-> Null,
      provider |-> Null, event |-> Null, signatureRequestId |-> 0 ]

\* DocumentService.createDocument(request), sendForSignature included;
\* providerOk: the provider's sendDocument returns rather than throws.
createDocument(request, providerOk) ==
    LET described == [ NoEsigCall EXCEPT !.op = "createDocument",
                                         !.sendForSignature = request.sendForSignature,
                                         !.signers = request.signers ]
        id == Len(documents) + 1
        row == [ status |-> IF TruthyFlag(request.sendForSignature)
                            THEN "pending_signature" ELSE "completed",
                 signatureRequestId |-> 0, sentAt |-> FALSE, signedAt |-> FALSE ]
        sentRow == [ row EXCEPT !.status = "sent_for_signature", !.sentAt = TRUE,
                                !.signatureRequestId = NextSignatureRequestId(documents) ]
    IN  /\ Len(documents) < MaxDocuments
        /\ IF request.templateId \notin DOMAIN DocumentTemplates
              \/ DocumentTemplates[request.templateId] # request.workspaceId
           THEN /\ documents' = documents
                /\ esigLast' = [ described EXCEPT !.outcome = "throw" ]
           ELSE IF ~ShouldSend(request)
           THEN /\ documents' = Append(documents, row)
                /\ esigLast' = [ described EXCEPT !.outcome = "return", !.document = id ]
           ELSE IF providerOk
           THEN /\ documents' = Append(documents, sentRow)
                /\ esigLast' = [ described EXCEPT !.outcome = "return", !.document = id,
                                                 !.sends = 1 ]
           ELSE /\ documents' = Append(documents, row)
                /\ esigLast' = [ described EXCEPT !.outcome = "throw", !.document = id,
                                                 !.sends = 1 ]
        /\ UNCHANGED << executions, notDoc >>

\* The webhooks of the model, as << provider, event >>: every event a handler
\* knows, an event it does not know, an event of another provider's, and a
\* provider handleWebhook does not know.
Webhooks ==
    { << "docusign", "envelope-completed" >>, << "docusign", "envelope-declined" >>,
      << "docusign", "envelope-voided" >>,
      << "hellosign", "signature_request_signed" >>,
      << "hellosign", "signature_request_declined" >>,
      << "pandadoc", "document_completed" >>, << "pandadoc", "document_declined" >>,
      << "hellosign", "signature_request_viewed" >>,
      << "pandadoc", "envelope-completed" >>,
      << "adobesign", "document_completed" >> }

\* handleWebhook with the three handlers: the status the event is passed on
\* with to updateDocumentStatus, Null when the event is dropped.
WebhookStatus(provider, event) ==
    CASE provider = "docusign" /\ event = "envelope-completed" -> "completed"
      [] provider = "docusign" /\ event = "envelope-declined" -> "declined"
      [] provider = "docusign" /\ event = "envelope-voided" -> "cancelled"
      [] provider = "hellosign" /\ event = "signature_request_signed" -> "completed"
      [] provider = "hellosign" /\ event = "signature_request_declined" -> "declined"
      [] provider = "pandadoc" /\ event = "document_completed" -> "completed"
      [] provider = "pandadoc" /\ event = "document_declined" -> "declined"
      [] OTHER -> Null

\* prisma.document.findFirst({ where: { signatureRequestId } }): the row's id, 0 for none
FindFirstDocument(docs, signatureRequestId) ==
    LET found == { i \in 1..Len(docs) : docs[i].signatureRequestId = signatureRequestId }
    IN  IF found = {} THEN 0 ELSE CHOOSE i \in found : \A k \in found : i <= k

\* The query of triggerWorkflowContinuation without its status filter.
ExecutionsWaitingAnyStatus(execs, documentId) ==
    { x \in DOMAIN execs : execs[x].waitingForDocument = documentId }

\* triggerWorkflowContinuation: the executions its findMany returns.
ExecutionsWaiting(execs, documentId) ==
    { x \in DOMAIN execs : /\ execs[x].status = "running"
                           /\ execs[x].waitingForDocument = documentId }

\* ESignatureService.handleWebhook(provider, payload) down to
\* updateDocumentStatus, triggerWorkflowContinuation and sendStatusNotification.
handleWebhook(provider, event, signatureRequestId) ==
    LET status == WebhookStatus(provider, event)
        id == FindFirstDocument(documents, signatureRequestId)
        described == [ NoEsigCall EXCEPT !.op = "handleWebhook", !.provider = provider,
                                         !.event = event, !.outcome = "return",
                                         !.signatureRequestId = signatureRequestId ]
    IN  /\ IF status = Null \/ id = 0
           THEN /\ documents' = documents
                /\ esigLast' = described
           ELSE /\ documents' = [ documents EXCEPT ![id] =
                      [ @ EXCEPT !.status = IF status = "completed" THEN "signed" ELSE status,
                                 !.signedAt = (status = "completed") ] ]
                /\ esigLast' = [ described EXCEPT
                      !.document = id,
                      !.resumed = IF status = "completed"
                                  THEN ExecutionsWaiting(executions, id) ELSE {},
                      !.notified = TRUE ]
        /\ UNCHANGED << executions, notDoc >>

\* The workflow engine: an execution changes status, starts or stops waiting
\* for a document.
EngineStep(x, status, documentId) ==
    /\ documentId <= Len(documents)
    /\ executions[x] # [ status |-> status, waitingForDocument |-> documentId ]
    /\ executions' = [ executions EXCEPT ![x] =
                         [ status |-> status, waitingForDocument |-> documentId ] ]
    /\ UNCHANGED << documents, esigLast, notDoc >>

CreateDocumentRequests ==
    [ templateId : TemplateIds, workspaceId : WorkspaceIds,
      sendForSignature : SendForSignatureValues, signers : SignersOfModel ]

DocNext ==
    \/ \E request \in CreateDocumentRequests, providerOk \in BOOLEAN :
          createDocument(request, providerOk)
    \/ \E webhook \in Webhooks, signatureRequestId \in 1..(MaxDocuments + 1) :
          handleWebhook(webhook[1], webhook[2], signatureRequestId)
    \/ \E x \in ExecutionsOfModel, status \in ExecutionStatuses, d \in 0..MaxDocuments :
          EngineStep(x, status, d)

(***************************************************************************)
(* src/docs/development-roadmap-mvp.md (lib/portal/auth.ts and             *)
(* middleware/portal-auth.ts): PortalAuth and portalAuthMiddleware.        *)
(* Time is in seconds, the unit of a JWT's iat and exp.  A token is what   *)
(* SignJWT makes of its input: HS256 over the claims, so the same client   *)
(* at the same second gets the same token; workspace and permissions are   *)
(* the same for every token of the model.  signed tells a token made with  *)
(* SECRET from any other string.                                           *)
(***************************************************************************)

\* TOKEN_EXPIRY = 24 * 60 * 60 * 1000 ms
TokenExpiry == 86400

MaxDays == 1
MaxSeconds == 1
MaxTokens == 2

PortalClients == { "c1", "c2" }

NoToken == [ clientId |-> Null, iat |-> 0 - 1, signed |-> FALSE ]

\* new SignJWT({ clientId, ... }).setIssuedAt().setExpirationTime(expiresAt).sign(SECRET)
SignJWT(clientId, at) == [ clientId |-> clientId, iat |-> at, signed |-> TRUE ]

\* The exp claim of a token.
Exp(token) == token.iat + TokenExpiry

\* jwtVerify(token, SECRET): the signature is SECRET's and exp is in the future.
JwtVerifies(token, at) == token.signed /\ Exp(token) > at

\* prisma.clientPortalAccess.findUnique({ where: { accessToken } }): the rows found
RowsOfToken(rows, token) == { r \in rows : r.accessToken = token }

\* verifyAccessToken trusting the JWT alone, without the database lookup.
VerifiesWithoutLookup(rows, token, at) == JwtVerifies(token, at)

\* verifyAccessToken returns a PortalAccessToken rather than null.
Verifies(rows, token, at) ==
    /\ JwtVerifies(token, at)
    /\ \E r \in RowsOfToken(rows, token) : ~(r.expiresAt < at)

\* The table after verifyAccessToken: lastAccess of the token's row is updated.
RowsAfterVerify(rows, token, at) ==
    IF Verifies(rows, token, at)
    THEN { IF r.accessToken = token THEN [ r EXCEPT !.lastAccess = at ] ELSE r : r \in rows }
    ELSE rows

NoPortalCall ==
    [ op |-> "none", token |-> NoToken, clientId |-> Null, result |-> Null,
      path |-> << >>, response |-> "none", at |-> 0,
      issuedBefore |-> FALSE, revokedBefore |-> FALSE ]

\* PortalAuth.generateAccessToken(clientId, workspaceId): accessToken is
\* @unique, so create throws when the token is in the table already.
generateAccessToken(clientId) ==
    LET token == SignJWT(clientId, now)
        described == [ NoPortalCall EXCEPT !.op = "generateAccessToken", !.token = token,
                                           !.clientId = clientId ]
    IN  /\ Cardinality(everIssued \cup { token }) <= MaxTokens
        /\ IF RowsOfToken(portalAccess, token) # {}
           THEN /\ UNCHANGED << portalAccess, everIssued >>
                /\ portalLast' = [ described EXCEPT !.result = "throw" ]
           ELSE /\ portalAccess' = portalAccess \cup
                      { [ accessToken |-> token, clientId |-> clientId,
                          expiresAt |-> now + TokenExpiry, lastAccess |-> 0 - 1 ] }
                /\ everIssued' = everIssued \cup { token }
                /\ portalLast' = [ described EXCEPT !.result = "token" ]
        /\ UNCHANGED << now, revoked, notPortal >>

\* PortalAuth.verifyAccessToken(token); the call is recorded with its time and
\* with whether the token had been issued and had been revoked before it.
verifyAccessToken(token) ==
    /\ portalAccess' = RowsAfterVerify(portalAccess, token, now)
    /\ portalLast' = [ NoPortalCall EXCEPT
          !.op = "verifyAccessToken", !.token = token, !.at = now,
          !.issuedBefore = (token \in everIssued),
          !.revokedBefore = (token \in revoked),
          !.result = IF Verifies(portalAccess, token, now) THEN token.clientId ELSE Null ]
    /\ UNCHANGED << now, everIssued, revoked, notPortal >>

\* PortalAuth.revokeToken(token): delete throws when there is no such row.
revokeToken(token) ==
    LET described == [ NoPortalCall EXCEPT !.op = "revokeToken", !.token = token ]
    IN  /\ IF RowsOfToken(portalAccess, token) = {}
           THEN /\ UNCHANGED << portalAccess, revoked >>
                /\ portalLast' = [ described EXCEPT !.result = "throw" ]
           ELSE /\ portalAccess' = portalAccess \ RowsOfToken(portalAccess, token)
                /\ revoked' = revoked \cup { token }
                /\ portalLast' = [ described EXCEPT !.result = "done" ]
        /\ UNCHANGED << now, everIssued, notPortal >>

\* PortalAuth.revokeAllClientTokens(clientId)
revokeAllClientTokens(clientId) ==
    LET gone == { r \in portalAccess : r.clientId = clientId }
    IN  /\ portalAccess' = portalAccess \ gone
        /\ revoked' = revoked \cup { r.accessToken : r \in gone }
        /\ portalLast' = [ NoPortalCall EXCEPT !.op = "revokeAllClientTokens",
                                               !.clientId = clientId, !.result = "done" ]
        /\ UNCHANGED << now, everIssued, notPortal >>

P_portalAuth == << "/", "p", "o", "r", "t", "a", "l", "/", "a", "u", "t", "h" >>
P_portalPublic == << "/", "p", "o", "r", "t", "a", "l", "/", "p", "u", "b", "l", "i", "c" >>
P_portalLogin == P_portalAuth \o << "/", "l", "o", "g", "i", "n" >>

\* pathname.startsWith("/portal/auth") || pathname.startsWith("/portal/public")
IsPublicPortalRoute(pathname) ==
    StartsWith(pathname, P_portalAuth) \/ StartsWith(pathname, P_portalPublic)

\* request.headers.get("authorization")?.replace("Bearer ", ""): without the
\* prefix the whole header is left, which is no token of SECRET's.
BearerToken(authorization) ==
    IF authorization.scheme = "Bearer " THEN authorization.value
    ELSE IF authorization.scheme = Null THEN NoToken
    ELSE [ authorization.value EXCEPT !.signed = FALSE ]

\* cookie || header: the token the middleware verifies, NoToken when neither
\* is there.
RequestToken(request) ==
    IF request.cookie # NoToken THEN request.cookie ELSE BearerToken(request.authorization)

\* portalAuthMiddleware(request), verifyAccessToken included
portalAuthMiddleware(request) ==
    LET token == RequestToken(request)
        described == [ NoPortalCall EXCEPT !.op = "portalAuthMiddleware",
                                           !.path = request.path, !.token = token ]
    IN  /\ IF IsPublicPortalRoute(request.path)
           THEN /\ portalAccess' = portalAccess
                /\ portalLast' = [ described EXCEPT !.response = "next" ]
           ELSE IF token = NoToken
           THEN /\ portalAccess' = portalAccess
                /\ portalLast' = [ described EXCEPT !.response = "redirect:/portal/auth/login" ]
           ELSE /\ portalAccess' = RowsAfterVerify(portalAccess, token, now)
                /\ portalLast' = IF Verifies(portalAccess, token, now)
                      THEN [ described EXCEPT !.response = "next",
                                              !.result = token.clientId ]
                      ELSE [ described EXCEPT !.response = "redirect:/portal/auth/login" ]
        /\ UNCHANGED << now, everIssued, revoked, notPortal >>

\* Time passes: a second or a day, within the days and the seconds into a day
\* the model follows.
PortalTick(seconds) ==
    /\ (now + seconds) \div TokenExpiry <= MaxDays
    /\ (now + seconds) % TokenExpiry <= MaxSeconds
    /\ now' = now + seconds
    /\ UNCHANGED << portalAccess, everIssued, revoked, portalLast, notPortal >>

\* The tokens a caller can present: those issued, and for each client one of
\* SECRET's that was never stored and one that is not SECRET's.
TokensToPresent ==
    everIssued \cup { [ clientId |-> c, iat |-> now, signed |-> s ] :
                        c \in PortalClients, s \in BOOLEAN }

PortalPaths ==
    { P_portalLogin,
      P_portalAuth \o << "o", "r", "s" >>,
      P_portalPublic \o << "/", "f", "a", "q" >>,
      P_portalPublic \o << "i", "t", "y" >>,
      << "/", "p", "o", "r", "t", "a", "l", "/", "d", "o", "c", "s" >> }

NoAuthorization == [ scheme |-> Null, value |-> NoToken ]

\* The requests of the model: without a token, with the cookie, or with an
\* authorization header.
PortalRequests ==
    { [ path |-> p, cookie |-> NoToken, authorization |-> NoAuthorization ] :
        p \in PortalPaths }
    \cup { [ path |-> p, cookie |-> t, authorization |-> NoAuthorization ] :
             p \in PortalPaths, t \in everIssued }
    \cup { [ path |-> p, cookie |-> NoToken, authorization |-> [ scheme |-> s, value |-> t ] ] :
             p \in PortalPaths, s \in { "Bearer ", "Basic " }, t \in everIssued }

\* The calls on PortalAuth.
PortalNext ==
    \/ \E c \in PortalClients : generateAccessToken(c)
    \/ \E t \in TokensToPresent : verifyAccessToken(t)
    \/ \E t \in TokensToPresent : revokeToken(t)
    \/ \E c \in PortalClients : revokeAllClientTokens(c)
    \/ \E s \in { 1, TokenExpiry } : PortalTick(s)

\* The portal behind its middleware: tokens are issued and revoked, requests
\* come in, and a day passes.
PortalMiddlewareNext ==
    \/ \E c \in PortalClients : generateAccessToken(c)
    \/ \E t \in everIssued : revokeToken(t)
    \/ \E r \in PortalRequests : portalAuthMiddleware(r)
    \/ PortalTick(TokenExpiry)

(***************************************************************************)
(* src/docs/development-roadmap-mvp.md (lib/auth/password.ts):             *)
(* PasswordService's password history.  prisma.passwordHistory is kept per *)
(* user, each user's rows in the order of their createdAt, oldest first;   *)
(* both queries are by userId.  A bcrypt hash is kept as the password it   *)
(* was made from behind a marker, and compare tells whether it was made    *)
(* from the password compared.                                             *)
(***************************************************************************)

\* take: 5 in checkPasswordHistory, skip: 5 in savePasswordHistory
PasswordsChecked == 5
PasswordsKept == 5

PasswordUsers == { "u1", "u2" }
PasswordsOfModel == { "hunter2", "s3cret" }

\* bcrypt.hash(password, SALT_ROUNDS)
hashPassword(password) == << "$2a$12$", password >>

\* bcrypt.compare(password, hash)
verifyPassword(password, hash) == hash = hashPassword(password)

\* findMany({ where: { userId }, orderBy: { createdAt: "desc" }, take: n })
NewestRows(rows, n) ==
    [ i \in 1..Min(n, Len(rows)) |-> rows[Len(rows) + 1 - i] ]

\* savePasswordHistory looking past one row more before it deletes.
OldRowsSkippingOneMore(rows) ==
    { i \in 1..Len(rows) : i <= Len(rows) - (PasswordsKept + 1) }

\* findMany({ where: { userId }, orderBy: { createdAt: "desc" }, skip: 5 }):
\* the indices of the rows found
OldRows(rows) == { i \in 1..Len(rows) : i <= Len(rows) - PasswordsKept }

\* deleteMany({ where: { id: { in: ids } } })
WithoutRows(rows, gone) ==
    LET kept == Len(rows) - Cardinality(gone)
        \* the index of the k-th row that stays
        Index(k) == CHOOSE i \in 1..Len(rows) :
                       /\ i \notin gone
                       /\ Cardinality({ m \in 1..i : m \notin gone }) = k
    IN  [ k \in 1..kept |-> rows[Index(k)] ]

\* The result of checkPasswordHistory: true when the password is new.
PasswordIsNew(rows, newPassword) ==
    LET last == NewestRows(rows, PasswordsChecked)
    IN  ~ \E i \in 1..Len(last) : verifyPassword(newPassword, last[i])

NoPasswordCall == [ op |-> "none", userId |-> Null, password |-> Null, result |-> FALSE ]

\* PasswordService.checkPasswordHistory(userId, newPassword)
checkPasswordHistory(userId, newPassword) ==
    /\ passwordLast' = [ op |-> "checkPasswordHistory", userId |-> userId,
                         password |-> newPassword,
                         result |-> PasswordIsNew(passwordHistory[userId], newPassword) ]
    /\ UNCHANGED << passwordHistory, notPassword >>

\* PasswordService.savePasswordHistory(userId, passwordHash)
savePasswordHistory(userId, password) ==
    LET created == Append(passwordHistory[userId], hashPassword(password))
    IN  /\ passwordHistory' =
              [ passwordHistory EXCEPT ![userId] = WithoutRows(created, OldRows(created)) ]
        /\ passwordLast' = [ op |-> "savePasswordHistory", userId |-> userId,
                             password |-> password, result |-> TRUE ]
        /\ UNCHANGED notPassword

PasswordNext ==
    \/ \E u \in PasswordUsers, p \in PasswordsOfModel : checkPasswordHistory(u, p)
    \/ \E u \in PasswordUsers, p \in PasswordsOfModel : savePasswordHistory(u, p)

(***************************************************************************)
(* src/unnamed/part_001: AutoLayoutEngine.buildGraph and topologicalSort.  *)
(* A Map is its keys in the order of their insertion and the value of each *)
(* key.  inDegree is read through (inDegree.get(node) || 0) only, so it is *)
(* a count for every id, 0 for the ids the Map does not hold.  One turn of *)
(* the while loop is one step.                                             *)
(***************************************************************************)

MaxLayoutConnections == 3

\* The ids of the steps; "zz" is an id connections name that no step has.
LayoutStepLists == { << >>, << "s1" >>, << "s1", "s2" >> }
LayoutIds == { "s1", "s2", "zz" }

LayoutConnections == [ from : LayoutIds, to : LayoutIds ]

LayoutConnectionLists ==
    UNION { [ 1..n -> LayoutConnections ] : n \in 0..MaxLayoutConnections }

\* How often x is among the elements of s.
Occurrences(s, x) == Cardinality({ i \in DOMAIN s : s[i] = x })

InSeq(s, x) == \E i \in DOMAIN s : s[i] = x

\* graph.get(key) || []
ChildrenOf(graph, key) == IF InSeq(graph.keys, key) THEN graph.children[key] ELSE << >>

\* graph.set(key, value)
MapSet(graph, key, value) ==
    [ keys |-> IF InSeq(graph.keys, key) THEN graph.keys ELSE Append(graph.keys, key),
      children |-> [ k \in LayoutIds |-> IF k = key THEN value ELSE graph.children[k] ] ]

\* connections.forEach of buildGraph, from connection i on
RECURSIVE AddConnections(_, _, _)
AddConnections(graph, connections, i) ==
    IF i > Len(connections) THEN graph
    ELSE AddConnections(
            MapSet(graph, connections[i].from,
                   Append(ChildrenOf(graph, connections[i].from), connections[i].to)),
            connections, i + 1)

\* AutoLayoutEngine.buildGraph(steps, connections)
buildGraph(steps, connections) ==
    AddConnections([ keys |-> steps, children |-> [ k \in LayoutIds |-> << >> ] ],
                   connections, 1)

\* The in-degrees topologicalSort starts from.
InDegrees(graph) ==
    [ n \in LayoutIds |->
        LET RECURSIVE Sum(_)
            Sum(i) == IF i > Len(graph.keys) THEN 0
                      ELSE Occurrences(graph.children[graph.keys[i]], n) + Sum(i + 1)
        IN  Sum(1) ]

\* The nodes the graph.forEach of one turn collects.
CurrentLayer(graph, visited, inDegree) ==
    SelectSeq(graph.keys, LAMBDA node : node \notin visited /\ inDegree[node] = 0)

\* A loop that goes on with an empty layer.
NeverBreaks(currentLayer) == FALSE

\* if (currentLayer.length === 0) break
Breaks(currentLayer) == Len(currentLayer) = 0

\* inDegree after the children of the layer's nodes were counted down.
InDegreeAfter(graph, inDegree, currentLayer) ==
    [ n \in LayoutIds |->
        LET RECURSIVE Sum(_)
            Sum(i) == IF i > Len(currentLayer) THEN 0
                      ELSE Occurrences(ChildrenOf(graph, currentLayer[i]), n) + Sum(i + 1)
        IN  inDegree[n] - Sum(1) ]

SeqToSet(s) == { s[i] : i \in DOMAIN s }

NoLayout ==
    [ pc |-> "idle", graph |-> [ keys |-> << >>, children |-> [ k \in LayoutIds |-> << >> ] ],
      inDegree |-> [ n \in LayoutIds |-> 0 ], visited |-> {}, layers |-> << >> ]

\* topologicalSort(buildGraph(steps, connections)) up to its while loop
topologicalSort(steps, connections) ==
    /\ layout.pc = "idle"
    /\ LET graph == buildGraph(steps, connections)
       IN  layout' = [ pc |-> "while", graph |-> graph, inDegree |-> InDegrees(graph),
                       visited |-> {}, layers |-> << >> ]
    /\ UNCHANGED notLayout

\* One test of the loop condition and, when it holds, one turn of the loop.
WhileTurn ==
    /\ layout.pc = "while"
    /\ LET currentLayer == CurrentLayer(layout.graph, layout.visited, layout.inDegree)
       IN  IF ~(Cardinality(layout.visited) < Len(layout.graph.keys))
           THEN layout' = [ layout EXCEPT !.pc = "returned" ]
           ELSE IF Breaks(currentLayer)
           THEN layout' = [ layout EXCEPT !.pc = "returned" ]
           ELSE layout' = [ layout EXCEPT
                   !.layers = Append(@, currentLayer),
                   !.visited = @ \cup SeqToSet(currentLayer),
                   !.inDegree = InDegreeAfter(layout.graph, @, currentLayer) ]
    /\ UNCHANGED notLayout

\* return layers: the caller has the layers and the locals are gone.
LayoutReturn ==
    /\ layout.pc = "returned"
    /\ layout' = NoLayout
    /\ UNCHANGED notLayout

LayoutNext ==
    \/ \E steps \in LayoutStepLists, connections \in LayoutConnectionLists :
          topologicalSort(steps, connections)
    \/ WhileTurn
    \/ LayoutReturn

(***************************************************************************)
(* src/docs/development-roadmap-mvp.md (lib/auth/mfa.ts): the backup codes *)
(* of MFAService.  prisma.mfaBackupCode is kept per user, the rows in the  *)
(* order of their creation.  A backup code is the user it was made for and *)
(* its number among that user's codes; the ten codes Math.random gives one *)
(* enableMFA are taken to differ.  useBackupCode awaits the database twice, *)
(* so it is two steps: its findMany, and its loop with the update; several *)
(* requests run it at once.                                                *)
(***************************************************************************)

\* Array.from({ length: 10 }, ...)
BackupCodeCount == 10

MaxEnables == 1

MfaUsers == { "u1", "u2" }
MfaRequests == { "r1", "r2" }

BackupCode(userId, n) == [ userId |-> userId, n |-> n ]

\* The codes the requests of the model try: two codes of u1's first ten, one
\* of u2's, and one that was never made.
CodesTried ==
    { BackupCode("u1", 1), BackupCode("u1", 2), BackupCode("u2", 1), BackupCode("u1", 0) }

\* bcrypt.hash(code, 12) and bcrypt.compare(code, hash)
HashCode(code) == << "$2a$12$", code >>
CompareCode(code, hash) == hash = HashCode(code)

\* The rows createMany adds: the hashes of the user's next ten codes.
NewBackupCodes(userId, rows) ==
    [ i \in 1..BackupCodeCount |->
        [ code |-> HashCode(BackupCode(userId, Len(rows) + i)), used |-> FALSE ] ]

\* findMany({ where: { userId, used: false } }): the ids (indices) of the rows
UnusedRows(rows) == { i \in 1..Len(rows) : ~rows[i].used }

\* The loop of useBackupCode over the rows it has read: the id of the first
\* row the code compares with, 0 when there is none.
FirstValid(rows, found, code) ==
    LET valid == { i \in found : CompareCode(code, rows[i].code) }
    IN  IF valid = {} THEN 0 ELSE CHOOSE i \in valid : \A k \in valid : i <= k

NoMfaRequest == [ pc |-> "idle", userId |-> Null, code |-> BackupCode(Null, 0), found |-> {} ]

\* MFAService.enableMFA(userId, secret, token) with a token that verifies
enableMFA(userId) ==
    /\ Len(mfaBackupCode[userId]) < MaxEnables * BackupCodeCount
    /\ mfaBackupCode' = [ mfaBackupCode EXCEPT
          ![userId] = @ \o NewBackupCodes(userId, @) ]
    /\ UNCHANGED << mfaRequest, mfaAccepted, notMfa >>

\* useBackupCode(userId, code) up to the result of its findMany
useBackupCodeFind(r, userId, code) ==
    /\ mfaRequest[r].pc = "idle"
    /\ mfaRequest' = [ mfaRequest EXCEPT
          ![r] = [ pc |-> "loop", userId |-> userId, code |-> code,
                   found |-> UnusedRows(mfaBackupCode[userId]) ] ]
    /\ UNCHANGED << mfaBackupCode, mfaAccepted, notMfa >>

\* useBackupCode(userId, code) from its loop to its return; mfaAccepted counts
\* the calls that returned true for the code.
useBackupCodeLoop(r) ==
    /\ mfaRequest[r].pc = "loop"
    /\ LET userId == mfaRequest[r].userId
           code == mfaRequest[r].code
           id == FirstValid(mfaBackupCode[userId], mfaRequest[r].found, code)
       IN  IF id = 0
           THEN UNCHANGED << mfaBackupCode, mfaAccepted >>
           ELSE /\ mfaBackupCode' = [ mfaBackupCode EXCEPT ![userId][id].used = TRUE ]
                /\ mfaAccepted' = [ mfaAccepted EXCEPT ![code] = @ + 1 ]
    /\ mfaRequest' = [ mfaRequest EXCEPT ![r] = NoMfaRequest ]
    /\ UNCHANGED notMfa

MfaNext ==
    \/ \E u \in MfaUsers : enableMFA(u)
    \/ \E r \in MfaRequests, u \in MfaUsers, c \in CodesTried : useBackupCodeFind(r, u, c)
    \/ \E r \in MfaRequests : useBackupCodeLoop(r)

Init ==
    /\ authLast = NoRequest
    /\ phase = "unmounted"
    /\ mode = Null
    /\ workflowId = Null
    /\ workflow = EmptyDraft
    /\ selectedStep = Null
    /\ isLoading = FALSE
    /\ timers = << >>
    /\ consoleLog = Null
    /\ draggedStep = Null
    /\ store = InitialStore
    /\ trace = NoTrace
    /\ redis = [ k \in RateKeys |-> NoKey ]
    /\ apiLast = NoApiRequest
    /\ jobs = [ j \in EmailJobIds |-> NoJob ]
    /\ emailSent = [ j \in EmailJobIds |-> << >> ]
    /\ executionStep = [ x \in ExecutionIds |-> "running" ]
    /\ delivered = [ j \in EmailJobIds |-> 0 ]
    /\ mailLast = NoMail
    /\ documents = << >>
    /\ executions = [ x \in ExecutionsOfModel |-> [ status |-> "running", waitingForDocument |-> 0 ] ]
    /\ esigLast = NoEsigCall
    /\ now = 0
    /\ portalAccess = {}
    /\ everIssued = {}
    /\ revoked = {}
    /\ portalLast = NoPortalCall
    /\ passwordHistory = [ u \in PasswordUsers |-> << >> ]
    /\ passwordLast = NoPasswordCall
    /\ layout = NoLayout
    /\ mfaBackupCode = [ u \in MfaUsers |-> << >> ]
    /\ mfaRequest = [ r \in MfaRequests |-> NoMfaRequest ]
    /\ mfaAccepted = [ c \in CodesTried |-> 0 ]

SpecAuth == Init /\ [][AuthNext]_vars

SpecEditor == Init /\ [][EditorNext]_vars

SpecStore == Init /\ [][StoreNext]_vars

SpecHistory == Init /\ [][HistoryNext]_vars

SpecApi == Init /\ [][ApiNext]_vars

SpecEmail == Init /\ [][EmailNext]_vars

SpecMail == Init /\ [][MailNext]_vars

SpecDoc == Init /\ [][DocNext]_vars

SpecPortal == Init /\ [][PortalNext]_vars

SpecPortalMiddleware == Init /\ [][PortalMiddlewareNext]_vars

SpecPassword == Init /\ [][PasswordNext]_vars

SpecLayout == Init /\ [][LayoutNext]_vars

\* The sort runs on: a turn of its loop that can be taken is taken.
SpecLayoutFair == SpecLayout /\ WF_vars(WhileTurn)

SpecMfa == Init /\ [][MfaNext]_vars

\* The browser's event loop runs every timer callback that is due.
SpecEditorFair == SpecEditor /\ WF_vars(Timeout)

(***************************************************************************)
(* C1.                                                                     *)
(***************************************************************************)

\* The paths the comment of src/middleware.ts lists as exempt, read generously:
\* each listed path and everything below it.
ListedExempt(path) ==
    \/ path = << "/" >>
    \/ \E p \in { S_api, S_nextStatic, S_nextImage, S_faviconIco } :
          \/ path = << "/" >> \o p
          \/ StartsWith(path, << "/" >> \o p \o << "/" >>)

\* C1: the authentication middleware is applied to every request path except
\* `/`, /api, /_next/static, /_next/image and /favicon.ico; no other path is exempt.
C1_OnlyListedPathsExempt ==
    authLast # NoRequest => (authLast.applied <=> ~ListedExempt(authLast.path))

(***************************************************************************)
(* C2.                                                                     *)
(***************************************************************************)

\* The mount effect has just run.
MountStep == phase = "rendered" /\ phase' = "mounted"

IsHardcodedMock(w) ==
    /\ w.id = "1"
    /\ w.status = "active"
    /\ [ i \in 1..Len(w.steps) |-> w.steps[i].id ] = << "step-1", "step-2", "step-3" >>
    /\ w.connections = << Conn("step-1", "step-2"), Conn("step-2", "step-3") >>

IsEmptyDraft(w) == w.steps = << >> /\ w.connections = << >> /\ w.status = "draft"

\* C2: mounted in edit mode with any non-empty workflowId, the workflow state
\* becomes the hardcoded mock workflow whatever the id is; mounted in create
\* mode it stays the empty draft.
C2_MountLoadsMock ==
    [][ MountStep =>
          /\ (mode = "edit" /\ workflowId # Null /\ workflowId # "")
                => IsHardcodedMock(workflow')
          /\ mode = "create" => IsEmptyDraft(workflow') ]_vars

\* Mounted in edit mode with an id other than the mock's own: the mock is loaded.
C2_Witness ==
    /\ phase = "mounted" /\ mode = "edit" /\ workflowId = "42"
    /\ IsHardcodedMock(workflow)

(***************************************************************************)
(* C3.                                                                     *)
(***************************************************************************)

\* C3: each Save Draft or Publish sets isLoading and starts a timer; only a
\* timer callback clears isLoading; and isLoading always returns to false.
C3_LoadingEventuallyCleared ==
    /\ [][ Len(timers') > Len(timers) => isLoading' ]_vars
    /\ [][ (isLoading /\ ~isLoading') => Len(timers') < Len(timers) ]_vars
    /\ (isLoading ~> ~isLoading)

\* A publish has run to its end: its timer has logged and cleared the flag.
C3_Witness ==
    /\ ~isLoading /\ timers = << >>
    /\ consoleLog = "Publishing workflow:"
    /\ workflow.status = "active"

(***************************************************************************)
(* C4.                                                                     *)
(***************************************************************************)

\* C4: a drag start or drag end changes only the canvas's draggedStep marker:
\* the workflow (steps, positions, connections) and the selection stay as
\* they are.
C4_DragChangesOnlyMarker ==
    [][ (phase = "mounted" /\ draggedStep' # draggedStep)
          => UNCHANGED << workflow, selectedStep, isLoading >> ]_vars

\* A card of the mock workflow is being dragged and sits where it was.
C4_Witness ==
    /\ draggedStep = "step-2"
    /\ \E i \in 1..Len(workflow.steps) :
          workflow.steps[i].id = "step-2" /\ workflow.steps[i].position = Pos(300, 100)

(***************************************************************************)
(* C5.                                                                     *)
(***************************************************************************)

NoDuplicateConnections(w) ==
    \A i, j \in 1..Len(w.connections) :
        (w.connections[i].from = w.connections[j].from
            /\ w.connections[i].to = w.connections[j].to) => i = j

\* C5: the store's workflow never holds two connections with the same from and
\* to, and addConnection for a pair that is already connected leaves the
\* workflow and the history as they are.
C5_NoDuplicateConnections ==
    /\ [](NoDuplicateConnections(store.workflow))
    /\ [][ (trace'.op = "addConnection"
              /\ HasConnection(store.workflow, trace'.args[1], trace'.args[2]))
           => store' = store ]_vars

\* addConnection has just been called for a pair the workflow already connects.
C5_Witness ==
    /\ trace.op = "addConnection" /\ trace.stage = "none"
    /\ HasConnection(store.workflow, trace.args[1], trace.args[2])
    /\ Len(store.workflow.connections) = 2

(***************************************************************************)
(* C6.                                                                     *)
(***************************************************************************)

\* C6: the history holds at most 50 snapshots, and historyIndex is an index
\* into it, or -1 while it is empty.
C6_HistoryBounded ==
    /\ Len(store.history) <= 50
    /\ IF store.history = << >>
       THEN store.historyIndex = -1
       ELSE store.historyIndex \in 0..(Len(store.history) - 1)

\* The history is full and its oldest snapshot, the empty workflow every
\* history starts with, has been dropped.
C6_Witness ==
    /\ Len(store.history) = 50
    /\ store.historyIndex = 49
    /\ store.history[1].connections # << >>

(***************************************************************************)
(* C7.                                                                     *)
(***************************************************************************)

\* C7: after an action that changed the store, undo restores the workflow as it
\* was immediately before the action, and a following redo restores it as it
\* was immediately after the action.
C7_UndoRedoRestore ==
    /\ trace.stage = "undone" => store.workflow = trace.before
    /\ trace.stage = "redone" => store.workflow = trace.after

(***************************************************************************)
(* C8.                                                                     *)
(***************************************************************************)

AuthKeys == { RateKey(ip, p) : ip \in ApiIps, p \in { q \in ApiPaths : RateClass(q) = "auth" } }

\* The requests to paths under /api/auth/ that Redis counts.  Each of its keys
\* lives 60 seconds from its first request, so all of them were made within
\* the last minute; the middleware passes on every one of them it does not
\* answer with 429.
AuthRequestsThisMinute == SumOver([ k \in AuthKeys |-> redis[k].count ], AuthKeys)
AuthLetThroughThisMinute ==
    SumOver([ k \in AuthKeys |-> Min(redis[k].count, 5) ], AuthKeys)

\* The last request is one Redis still counts.
LastIsCounted ==
    /\ apiLast.current > 0
    /\ redis[RateKey(apiLast.req.ip, apiLast.req.pathname)].count = apiLast.current

\* C8 (for the paths under /api/auth/; a single client IP): no more than 5
\* requests per minute are let through, and every request beyond the limit
\* within the minute is answered with status 429.
C8_RateLimitPerMinute ==
    /\ AuthLetThroughThisMinute <= 5
    /\ (LastIsCounted /\ RateClass(apiLast.req.pathname) = "auth"
            /\ AuthRequestsThisMinute > 5)
         => apiLast.status = "429"

(***************************************************************************)
(* C9.                                                                     *)
(***************************************************************************)

\* A public form submission: a path that starts with /api/forms/ and ends with /submit.
Submission(pathname) == StartsWith(pathname, P_apiForms) /\ EndsWith(pathname, P_submit)

\* A path under /api/ and outside /api/auth/ that is not a public form submission.
Protected(pathname) ==
    /\ StartsWith(pathname, P_api)
    /\ ~StartsWith(pathname, P_apiAuth)
    /\ ~Submission(pathname)

PassedOn == apiLast.status = "next"

CarriesSessionUser ==
    /\ apiLast.req.session # NoSession
    /\ apiLast.headers.xUserId = apiLast.req.session[1].user.id
    /\ apiLast.headers.xUserEmail = apiLast.req.session[1].user.email

\* C9 as stated: a request without a session to a path under /api/ outside
\* /api/auth/ is answered 401 and not passed on, except public form
\* submissions, which pass; a request to such a path that is passed on carries
\* x-user-id and x-user-email of the session user.
C9_UnauthenticatedGets401 ==
    apiLast # NoApiRequest =>
        /\ (Protected(apiLast.req.pathname) /\ apiLast.req.session = NoSession)
              => apiLast.status = "401"
        /\ Submission(apiLast.req.pathname) => PassedOn
        /\ (Protected(apiLast.req.pathname) /\ PassedOn) => CarriesSessionUser

\* C9 as amended: such a request is never passed on: it is answered 429 when it
\* exceeds the rate limit of its client and path, and 401 otherwise; public form
\* submissions pass without a session; a request to such a path that is passed
\* on carries x-user-id and x-user-email of the session user, whatever the
\* client sent.
C9_UnauthenticatedNotPassedOn ==
    apiLast # NoApiRequest =>
        /\ (Protected(apiLast.req.pathname) /\ apiLast.req.session = NoSession)
              => /\ ~PassedOn
                 /\ apiLast.status =
                      IF apiLast.current > RateConfig(apiLast.req.pathname).maxRequests
                      THEN "429" ELSE "401"
        /\ Submission(apiLast.req.pathname) => PassedOn
        /\ (Protected(apiLast.req.pathname) /\ PassedOn) => CarriesSessionUser

\* A request without a session that sends an x-user-id of its own is over the
\* rate limit and answered 429.
C9_Witness ==
    /\ Protected(apiLast.req.pathname)
    /\ apiLast.req.session = NoSession
    /\ apiLast.status = "429"
    /\ apiLast.req.headers.xUserId = "u2"

(***************************************************************************)
(* C10.                                                                    *)
(***************************************************************************)

\* C10: a job whose send attempt fails is put back for a retry with a delay of
\* 2000 ms doubled for each further failure, for at most 3 attempts in total;
\* a job ends completed only by a successful send and failed only by its third
\* failed attempt, and after either it is never processed again.
C10_RetriedAtMostThreeTimes ==
    /\ [](\A j \in EmailJobIds :
            /\ jobs[j].attemptsMade <= 3
            /\ Len(emailSent[j]) = jobs[j].attemptsMade
            /\ jobs[j].state = "completed" => delivered[j] = 1
            /\ jobs[j].state = "failed" => (jobs[j].attemptsMade = 3 /\ delivered[j] = 0)
            /\ (jobs[j].state = "delayed" /\ jobs[j].attemptsMade > 0) =>
                  /\ delivered[j] = 0
                  /\ \/ jobs[j].attemptsMade = 1 /\ jobs[j].delay = 2000
                     \/ jobs[j].attemptsMade = 2 /\ jobs[j].delay = 4000)
    /\ [][ \A j \in EmailJobIds :
             /\ (jobs[j].state = "waiting" /\ jobs'[j].attemptsMade > jobs[j].attemptsMade
                    /\ delivered'[j] = delivered[j])
                  => jobs'[j].state = IF jobs'[j].attemptsMade < 3 THEN "delayed" ELSE "failed"
             /\ jobs[j].state \in { "completed", "failed" }
                  => (jobs'[j] = jobs[j] /\ emailSent'[j] = emailSent[j]
                        /\ delivered'[j] = delivered[j]) ]_vars

\* One job has failed twice and been sent on its third attempt; another has
\* failed for good.
C10_Witness ==
    /\ jobs["job1"].state = "completed" /\ jobs["job1"].attemptsMade = 3
    /\ jobs["job2"].state = "failed"

(***************************************************************************)
(* C11.                                                                    *)
(***************************************************************************)

\* The providers a sendEmail sent through, in the order of the sends.
SendsOf(calls) ==
    LET sends == SelectSeq(calls, LAMBDA c : c.method = "send")
    IN  [ i \in 1..Len(sends) |-> sends[i].provider ]

\* Provider p is healthy and its send succeeds.
Delivers(env, p) == env.healthy[p] /\ env.sendOk[p]

\* The sends the claim expects: Resend, then SendGrid, then SES, without the
\* unhealthy ones, and nothing after the first that delivers.
ExpectedSends(env) ==
    LET r == IF env.healthy["resend"] THEN << "resend" >> ELSE << >>
        g == IF env.healthy["sendgrid"] THEN << "sendgrid" >> ELSE << >>
        s == IF env.healthy["ses"] THEN << "ses" >> ELSE << >>
    IN  IF Delivers(env, "resend") THEN r
        ELSE IF Delivers(env, "sendgrid") THEN r \o g
        ELSE r \o g \o s

\* C11: a sendEmail that gets to the providers sends through Resend, SendGrid
\* and SES in that order, leaving out those that report unhealthy; it returns
\* the result of the first provider whose send succeeds and calls no provider
\* after it; it throws "All email providers failed" exactly when every
\* provider was skipped or failed, and never otherwise.
C11_ProvidersInOrder ==
    mailLast.called =>
        LET env == mailLast.env
            first == IF Delivers(env, "resend") THEN "resend"
                     ELSE IF Delivers(env, "sendgrid") THEN "sendgrid"
                     ELSE IF Delivers(env, "ses") THEN "ses"
                     ELSE NoProvider
        IN  /\ env.template # "missing" =>
                /\ SendsOf(mailLast.calls) = ExpectedSends(env)
                /\ first # NoProvider =>
                      /\ mailLast.kind = "return" /\ mailLast.provider = first
                      /\ mailLast.calls[Len(mailLast.calls)] =
                            [ provider |-> first, method |-> "send" ]
                /\ first = NoProvider =>
                      /\ mailLast.kind = "throw"
                      /\ mailLast.message = "All email providers failed"
            /\ mailLast.message = "All email providers failed" =>
                  \A p \in ProviderNames : ~Delivers(env, p)

\* Resend is unhealthy, SendGrid's send fails and SES has delivered the email.
C11_Witness ==
    /\ mailLast.called
    /\ ~mailLast.env.healthy["resend"]
    /\ mailLast.env.healthy["sendgrid"] /\ ~mailLast.env.sendOk["sendgrid"]
    /\ mailLast.kind = "return" /\ mailLast.provider = "ses"
    /\ SendsOf(mailLast.calls) = << "sendgrid", "ses" >>

(***************************************************************************)
(* C12.                                                                    *)
(***************************************************************************)

\* The events that report a signature request as completed.
CompletedEvent(provider, event) ==
    \/ provider = "docusign" /\ event = "envelope-completed"
    \/ provider = "hellosign" /\ event = "signature_request_signed"
    \/ provider = "pandadoc" /\ event = "document_completed"

\* Execution x is running and waits for document d.
WaitsFor(x, d) ==
    /\ d # 0
    /\ executions[x].status = "running"
    /\ executions[x].waitingForDocument = d

\* The document whose signature request has the id, 0 when there is none.
DocumentOfRequest(signatureRequestId) ==
    IF \E i \in 1..Len(documents) : documents[i].signatureRequestId = signatureRequestId
    THEN CHOOSE i \in 1..Len(documents) : documents[i].signatureRequestId = signatureRequestId
    ELSE 0

\* C12: processing a webhook event resumes exactly the running executions that
\* wait for the document of the event's signature request when the event is a
\* completed one, and resumes no execution when the event is a declined, a
\* cancelled or any other one, or when no document has that signature request;
\* no other operation resumes an execution.
C12_ResumedOnlyOnCompleted ==
    [][ /\ (esigLast'.op = "handleWebhook" /\ executions' = executions) =>
            LET d == DocumentOfRequest(esigLast'.signatureRequestId)
            IN  \A x \in ExecutionsOfModel :
                   x \in esigLast'.resumed <=>
                      /\ CompletedEvent(esigLast'.provider, esigLast'.event)
                      /\ WaitsFor(x, d)
        /\ esigLast'.op # "handleWebhook" => esigLast'.resumed = {}
      ]_vars

\* A completed event has resumed the one execution that waited for the
\* document while the other, waiting for another document, was left alone.
C12_Witness ==
    /\ esigLast.op = "handleWebhook"
    /\ esigLast.event = "signature_request_signed"
    /\ esigLast.resumed = { "x1" }
    /\ executions["x2"].status = "running"
    /\ executions["x2"].waitingForDocument \notin { 0, esigLast.document }

(***************************************************************************)
(* C13.                                                                    *)
(***************************************************************************)

\* C13: a createDocument that returns has, with sendForSignature set, sent the
\* document to the provider and left it sent_for_signature with sentAt and
\* signatureRequestId recorded, and has, with sendForSignature not set, sent
\* nothing and left it completed.
C13_SentWhenAsked ==
    (esigLast.op = "createDocument" /\ esigLast.outcome = "return") =>
        LET document == documents[esigLast.document]
        IN  IF esigLast.sendForSignature = "true"
            THEN /\ esigLast.sends = 1
                 /\ document.status = "sent_for_signature"
                 /\ document.sentAt
                 /\ document.signatureRequestId # 0
            ELSE /\ esigLast.sends = 0
                 /\ document.status = "completed"

(***************************************************************************)
(* C14.                                                                    *)
(***************************************************************************)

\* C14: verifyAccessToken returns null for a token that was never issued, for
\* one whose 24 hours are over, and for one that a completed revokeToken or
\* revokeAllClientTokens has revoked before.
C14_RevokedNeverVerifies ==
    (portalLast.op = "verifyAccessToken"
        /\ \/ ~portalLast.issuedBefore
           \/ portalLast.token.iat + 86400 <= portalLast.at
           \/ portalLast.revokedBefore)
    => portalLast.result = Null

(***************************************************************************)
(* C15.                                                                    *)
(***************************************************************************)

\* The path is prefix itself or lies under it.
Under(path, prefix) == path = prefix \/ StartsWith(path, prefix \o << "/" >>)

\* C15: the middleware lets a request proceed only if its path is
\* /portal/auth, /portal/public or under one of them, or if it carries a token
\* (cookie or bearer header) that verifyAccessToken accepts; every other
\* request is redirected to /portal/auth/login.
C15_OnlyPublicOrVerified ==
    portalLast.op = "portalAuthMiddleware" =>
        IF Under(portalLast.path, P_portalAuth) \/ Under(portalLast.path, P_portalPublic)
           \/ portalLast.result # Null
        THEN portalLast.response = "next"
        ELSE portalLast.response = "redirect:/portal/auth/login"

(***************************************************************************)
(* C16.                                                                    *)
(***************************************************************************)

\* The last n elements of a sequence, all of it when it is shorter.
LastOf(s, n) == IF Len(s) <= n THEN s ELSE SubSeq(s, Len(s) - n + 1, Len(s))

\* C16: a user's password history never holds more than 5 entries; a
\* savePasswordHistory leaves the last 5 of what was there followed by the
\* hash saved, and leaves other users' histories alone; checkPasswordHistory
\* returns false exactly when the new password is that of one of the entries,
\* which are the last 5 saved.
C16_LastFivePasswords ==
    /\ [](\A u \in PasswordUsers : Len(passwordHistory[u]) <= 5)
    /\ [][ passwordLast'.op = "savePasswordHistory" =>
             \A u \in PasswordUsers :
                passwordHistory'[u] =
                   IF u = passwordLast'.userId
                   THEN LastOf(passwordHistory[u] \o << << "$2a$12$", passwordLast'.password >> >>, 5)
                   ELSE passwordHistory[u] ]_vars
    /\ [](passwordLast.op = "checkPasswordHistory" =>
            (passwordLast.result <=>
               ~ \E i \in 1..Len(passwordHistory[passwordLast.userId]) :
                    passwordHistory[passwordLast.userId][i][2] = passwordLast.password))

\* A password saved six saves ago has left the full history and is accepted
\* as new.
C16_Witness ==
    /\ passwordLast.op = "checkPasswordHistory"
    /\ passwordLast.userId = "u1" /\ passwordLast.password = "hunter2"
    /\ passwordLast.result
    /\ Len(passwordHistory["u1"]) = 5
    /\ Len(passwordHistory["u2"]) = 1

(***************************************************************************)
(* C17.                                                                    *)
(***************************************************************************)

\* C17: a topologicalSort that has entered its loop returns, whatever the
\* graph, and it does so within as many turns as the graph has nodes: it never
\* collects more layers than that.
C17_TopologicalSortTerminates ==
    /\ [](Len(layout.layers) <= Len(layout.graph.keys))
    /\ (layout.pc = "while" ~> layout.pc = "returned")

\* The sort has returned from a graph with a circular dependency: one layer
\* was collected and two steps that lead to each other were never visited.
C17_Witness ==
    /\ layout.pc = "returned"
    /\ Len(layout.layers) = 1
    /\ { "s1", "s2" } \cap layout.visited = {}
    /\ InSeq(layout.graph.children["s1"], "s2")
    /\ InSeq(layout.graph.children["s2"], "s1")

(***************************************************************************)
(* C18.                                                                    *)
(***************************************************************************)

\* Job j is the one email job of execution x.
OnlyJobOf(j, x) ==
    /\ jobs[j].workflowExecutionId = x
    /\ \A k \in EmailJobIds \ { j } : jobs[k].workflowExecutionId # x

\* C18: when the one email job of an execution has ended completed, on
\* whichever attempt, the execution's step is completed and every row of the
\* job's email log is sent; when it has ended and the step is failed, every
\* attempt of the job has failed.
C18_StepFollowsLastAttempt ==
    \A j \in EmailJobIds, x \in ExecutionIds :
        OnlyJobOf(j, x) =>
            /\ jobs[j].state = "completed" =>
                  /\ executionStep[x] = "completed"
                  /\ \A i \in 1..Len(emailSent[j]) : emailSent[j][i] = "sent"
            /\ (jobs[j].state \in { "completed", "failed" } /\ executionStep[x] = "failed") =>
                  (jobs[j].state = "failed" /\ delivered[j] = 0)

(***************************************************************************)
(* C19.                                                                    *)
(***************************************************************************)

\* C19: a backup code is accepted at most once: of all the useBackupCode
\* calls made with it, one after another or at the same time, at most one
\* returns true.
C19_BackupCodeUsedOnce ==
    \A code \in CodesTried : mfaAccepted[code] <= 1

====
